---- MODULE Spec2Model ----
(***************************************************************************)
(* The audit engine of src/seo/seo_audit.py: seo_audit fetches one page,   *)
(* runs the document checks, probes robots.txt and sitemap.xml, validates  *)
(* a sample of the page's links on a thread pool and scores the report.    *)
(*                                                                         *)
(* A URL is a record [scheme, host, path]; an href without a scheme has    *)
(* scheme "" and host "".  A document is a record of the features the      *)
(* checks read from the parsed HTML.  The network is the function Web,     *)
(* which answers a request by the path of its URL.                         *)
(***************************************************************************)
EXTENDS Integers, Sequences, FiniteSets, TLC

\* ------------------------------------------------------------------ bounds
MaxAnchors == 2
MaxLinks == 2
MaxWorkers == 2
ManyLinks == 22
MaxTitleLen == 62
MaxJsonLd == 3

\* ------------------------------------------------------- program constants
WorkerCap == 20
DefaultMaxLinks == 25
BucketLimit == 10
StartScore == 100
RedirectLimit == 30

\* ------------------------------------------------------------- dictionaries
\* The empty dict {} of the report's sections.
Empty == [k \in {} |-> 0]

IsEmpty(d) == DOMAIN d = {}

Max(a, b) == IF a >= b THEN a ELSE b

Min(a, b) == IF a <= b THEN a ELSE b

\* xs[:n] for n >= 0
Take(xs, n) == SubSeq(xs, 1, Min(n, Len(xs)))

\* -------------------------------------------------------------------- URLs
Url(s, h, p) == [scheme |-> s, host |-> h, path |-> p]

_ensure_url_scheme(u) ==
  IF u.scheme = "" THEN Url("https", u.host, u.path) ELSE u

\* urljoin(base, href): an href with a scheme is absolute and returned as it
\* is, one without takes scheme and host from the base.
_absolute_url(base, href) ==
  IF href.scheme # "" THEN href ELSE Url(base.scheme, base.host, href.path)

_domain(u) == u.host

_is_internal(base, href) == _domain(base) = _domain(_absolute_url(base, href))

Placeholder == Url("https", "placeholder.com", "")

SkippedSchemes == {"javascript", "mailto", "tel"}

\* ----------------------------------------------------------------- network
\* What a request gives: an exception (exc) or a status.
Answer(e, s) == [exc |-> e, status |-> s]

\* What the server at u answers to one request: an exception, or a status
\* with the Location it redirects to (NoHref when it names none).
NoHref == Url("", "", "")

Reply(e, s, loc) == [exc |-> e, status |-> s, location |-> loc]

Server(method, u) ==
  CASE u.path = "/down"   -> Reply(TRUE, 0, NoHref)
    [] u.path = "/gone"   -> Reply(FALSE, 404, NoHref)
    [] u.path = "/moved"  -> Reply(FALSE, 301, Url(u.scheme, u.host, "/ok"))
    [] u.path = "/ad"     -> Reply(FALSE, 300, NoHref)
    [] u.path = "/nohead" -> IF method = "HEAD" THEN Reply(FALSE, 405, NoHref)
                             ELSE Reply(FALSE, 200, NoHref)
    [] u.path = "/flaky"  -> IF method = "HEAD" THEN Reply(FALSE, 503, NoHref)
                             ELSE Reply(TRUE, 0, NoHref)
    [] OTHER              -> Reply(FALSE, 200, NoHref)

\* allow_redirects=True: requests follows a 3xx that names a Location, at
\* most RedirectLimit times, and raises TooManyRedirects after that.
RECURSIVE Follow(_, _, _)
Follow(method, u, left) ==
  LET a == Server(method, u) IN
  IF a.exc \/ a.status \notin 300..399 \/ a.location = NoHref
  THEN Answer(a.exc, a.status)
  ELSE IF left = 0 THEN Answer(TRUE, 0)
  ELSE Follow(method, a.location, left - 1)

\* requests.head(u) and requests.get(u) of head_or_get.  requests refuses a
\* URL without a scheme (MissingSchema) before any I/O.
Web(method, u) ==
  IF u.scheme = "" THEN Answer(TRUE, 0) ELSE Follow(method, u, RedirectLimit)

\* requests.Response.__bool__ is Response.ok: False for 400 <= status < 600.
Truthy(ans) == ~ans.exc /\ ~(400 <= ans.status /\ ans.status < 600)

\* ---------------------------------------------------------- document checks
\* Each check returns its result fields and the recommendations it appends.
\* The title check with both thresholds inclusive.
_check_title_inclusive(doc) ==
  IF doc.hasTitle /\ doc.titleLen > 0
  THEN [title |-> doc.titleLen,
        info |-> [length |-> doc.titleLen,
                  issues |-> (IF doc.titleLen <= 30 THEN <<"Title too short (<30 chars)">> ELSE <<>>)
                          \o (IF doc.titleLen >= 60 THEN <<"Title too long (>60 chars)">> ELSE <<>>)],
        recs |-> (IF doc.titleLen <= 30 THEN <<"Increase title length to ~50-60 characters.">> ELSE <<>>)
              \o (IF doc.titleLen >= 60 THEN <<"Shorten title to <=60 characters.">> ELSE <<>>)]
  ELSE [title |-> 0,
        info |-> [length |-> 0, issues |-> <<"Missing title">>],
        recs |-> <<"Missing <title> tag.">>]

\* doc.hasTitle: there is a <title> tag; doc.titleLen: the length of its
\* stripped text.
_check_title(doc) ==
  IF doc.hasTitle /\ doc.titleLen > 0
  THEN [title |-> doc.titleLen,
        info |-> [length |-> doc.titleLen,
                  issues |-> (IF doc.titleLen < 30 THEN <<"Title too short (<30 chars)">> ELSE <<>>)
                          \o (IF doc.titleLen > 60 THEN <<"Title too long (>60 chars)">> ELSE <<>>)],
        recs |-> (IF doc.titleLen < 30 THEN <<"Increase title length to ~50-60 characters.">> ELSE <<>>)
              \o (IF doc.titleLen > 60 THEN <<"Shorten title to <=60 characters.">> ELSE <<>>)]
  ELSE [title |-> 0,
        info |-> [length |-> 0, issues |-> <<"Missing title">>],
        recs |-> <<"Missing <title> tag.">>]

_check_meta_description(doc) ==
  IF doc.hasDesc
  THEN [content |-> doc.descLen,
        info |-> [length |-> doc.descLen,
                  issues |-> (IF doc.descLen < 50 THEN <<"Description too short (<50 chars)">> ELSE <<>>)
                          \o (IF doc.descLen > 160 THEN <<"Description too long (>160 chars)">> ELSE <<>>)],
        recs |-> (IF doc.descLen < 50 THEN <<"Expand meta description to 120-160 characters.">> ELSE <<>>)
              \o (IF doc.descLen > 160 THEN <<"Shorten meta description to <=160 characters.">> ELSE <<>>)]
  ELSE [content |-> 0,
        info |-> [length |-> 0, issues |-> <<"Missing meta description">>],
        recs |-> <<"Add a unique meta description (120-160 characters).">>]

\* The check without its test for more than one H1.
_check_h1_noMultiple(doc) ==
  [info |-> [count |-> doc.h1Count,
             issues |-> IF doc.h1Count = 0 THEN <<"No H1">> ELSE <<>>],
   recs |-> IF doc.h1Count = 0 THEN <<"Add one descriptive H1 heading.">> ELSE <<>>]

_check_h1(doc) ==
  [info |-> [count |-> doc.h1Count,
             issues |-> IF doc.h1Count = 0 THEN <<"No H1">>
                        ELSE IF doc.h1Count > 1 THEN <<"Multiple H1s">> ELSE <<>>],
   recs |-> IF doc.h1Count = 0 THEN <<"Add one descriptive H1 heading.">>
            ELSE IF doc.h1Count > 1 THEN <<"Use only one primary H1 heading per page.">>
            ELSE <<>>]

\* The recommendation carries the number of images without alt text.
_check_images(doc) ==
  [missing |-> doc.imgMissingAlt,
   info |-> [total |-> doc.imgTotal],
   recs |-> IF doc.imgMissingAlt > 0
            THEN <<ToString(doc.imgMissingAlt) \o " images missing alt text.">>
            ELSE <<>>]

\* doc.canonical is the canonical link's href, or NoHref when there is none.
_check_canonical(base, doc) ==
  IF doc.canonical # NoHref
  THEN LET href == _absolute_url(base, doc.canonical) IN
       [href |-> href,
        info |-> [issues |-> IF href.host # _absolute_url(base, NoHref).host
                             THEN <<"Canonical points to different domain">> ELSE <<>>],
        recs |-> IF href.host # _absolute_url(base, NoHref).host
                 THEN <<"Ensure canonical URL points to the same domain.">> ELSE <<>>]
  ELSE [href |-> NoHref,
        info |-> [issues |-> <<"Missing canonical">>],
        recs |-> <<"Add a canonical <link> to avoid duplicate content.">>]

_check_viewport(doc) ==
  [has |-> doc.viewport,
   recs |-> IF doc.viewport THEN <<>> ELSE <<"Add responsive viewport meta tag.">>]

_check_meta_robots(doc) ==
  [info |-> [noindex |-> doc.noindex, nofollow |-> doc.nofollow],
   recs |-> (IF doc.noindex THEN <<"Page is set to noindex.">> ELSE <<>>)
         \o (IF doc.nofollow THEN <<"Page is set to nofollow.">> ELSE <<>>)]

_check_lang_and_charset(doc) ==
  [info |-> [lang |-> doc.lang, charset |-> doc.charset],
   recs |-> (IF doc.lang THEN <<>> ELSE <<"Set <html lang> attribute for accessibility and SEO.">>)
         \o (IF doc.charset THEN <<>> ELSE <<"Declare a charset (e.g., UTF-8).">>)]

_check_hreflang(doc) ==
  [hreflangs |-> doc.hreflangs,
   recs |-> IF doc.hreflangs > 0 /\ ~doc.xDefault
            THEN <<"Add x-default hreflang for international pages.">> ELSE <<>>]

\* The loop over the JSON-LD blocks left at the first block that fails to
\* parse.
RECURSIVE JsonLd_stopsAtError(_)
JsonLd_stopsAtError(blocks) ==
  IF blocks = <<>> THEN [ok |-> 0, errors |-> 0, recs |-> <<>>]
  ELSE IF Head(blocks)
  THEN LET rest == JsonLd_stopsAtError(Tail(blocks)) IN
       [ok |-> rest.ok + 1, errors |-> rest.errors, recs |-> rest.recs]
  ELSE [ok |-> 0, errors |-> 1, recs |-> <<"Fix invalid JSON-LD structured data.">>]

\* doc.jsonld is the sequence of JSON-LD blocks, TRUE for one that parses.
RECURSIVE JsonLd(_)
JsonLd(blocks) ==
  IF blocks = <<>> THEN [ok |-> 0, errors |-> 0, recs |-> <<>>]
  ELSE LET rest == JsonLd(Tail(blocks)) IN
       IF Head(blocks)
       THEN [ok |-> rest.ok + 1, errors |-> rest.errors, recs |-> rest.recs]
       ELSE [ok |-> rest.ok, errors |-> rest.errors + 1,
             recs |-> <<"Fix invalid JSON-LD structured data.">> \o rest.recs]

_check_social_and_structured(doc) ==
  LET j == JsonLd(doc.jsonld) IN
  [data |-> [open_graph |-> doc.og, twitter_card |-> doc.twitter,
             json_ld_blocks |-> j.ok, json_ld_errors |-> j.errors],
   recs |-> (IF doc.og THEN <<>> ELSE <<"Add Open Graph tags for better social sharing.">>)
         \o (IF doc.twitter THEN <<>> ELSE <<"Add Twitter Card meta tags.">>)
         \o j.recs]

\* ------------------------------------------------------- technical headers
\* resp.headers maps lower-cased header names to values; a header that is not
\* sent is not in its domain.
Has(headers, name) == name \in DOMAIN headers

\* The text of a Content-Length header: the digits of n, or text that is not
\* a number.
Digits(n) == [numeric |-> TRUE, value |-> n]

NotDigits == [numeric |-> FALSE, value |-> 0]

\* int(text): the number, or ValueError.
ParseInt(text) == [raises |-> ~text.numeric, value |-> text.value]

\* raises: int() of the Content-Length raised, and the function with it.
_check_technical_headers(url, resp) ==
  LET h == resp.headers
      tech == [status_code |-> resp.status,
               response_time_ms |-> resp.elapsed_ms,
               content_length |-> IF Has(h, "content-length")
                                  THEN ParseInt(h["content-length"]).value ELSE 0,
               hsts |-> Has(h, "strict-transport-security"),
               x_content_type_options |->
                   Has(h, "x-content-type-options") /\ h["x-content-type-options"] = "nosniff",
               x_frame_options |-> Has(h, "x-frame-options"),
               referrer_policy |-> Has(h, "referrer-policy"),
               csp |-> Has(h, "content-security-policy")]
  IN [tech |-> tech,
      raises |-> Has(h, "content-length") /\ ParseInt(h["content-length"]).raises,
      recs |-> (IF tech.response_time_ms > 1500
                THEN <<"Page load (first byte) seems slow (>1.5s). Optimize performance.">> ELSE <<>>)
            \o (IF tech.content_length > 2 * 1024 * 1024
                THEN <<"Large page size (>2MB). Consider optimizing assets.">> ELSE <<>>)
            \o (IF url.scheme = "https" /\ ~tech.hsts
                THEN <<"Enable HSTS for better transport security.">> ELSE <<>>)
            \o (IF ~tech.x_content_type_options
                THEN <<"Add X-Content-Type-Options: nosniff header.">> ELSE <<>>)
            \o (IF ~tech.x_frame_options
                THEN <<"Add X-Frame-Options header to prevent clickjacking.">> ELSE <<>>)
            \o (IF ~tech.referrer_policy THEN <<"Set a Referrer-Policy header.">> ELSE <<>>)
            \o (IF ~tech.csp
                THEN <<"Consider adding a Content-Security-Policy header.">> ELSE <<>>)]

\* --------------------------------------------------------- robots / sitemap
\* robots and sitemap are the answers of the two probes.
_check_robots_and_sitemap(robots, sitemap) ==
  [info |-> [robots_txt |-> IF Truthy(robots) /\ robots.status = 200 THEN "Present" ELSE "Missing",
             sitemap |-> IF Truthy(sitemap) /\ sitemap.status = 200 THEN "Present" ELSE "Missing"],
   recs |-> (IF Truthy(robots) /\ robots.status = 200 THEN <<>> ELSE <<"Missing robots.txt file.">>)
         \o (IF Truthy(sitemap) /\ sitemap.status = 200 THEN <<>> ELSE <<"Missing sitemap.xml file.">>)]

\* ------------------------------------------------------------ link sampling
\* An anchor is [href, nav, main, header, footer, adword, textLen]: where the
\* <a> stands, whether its href contains one of the down-ranked words, and the
\* length of its text.
LinkScore(a) ==
    (IF a.nav THEN 10 ELSE 0)
  + (IF a.main THEN 8 ELSE 0)
  + (IF a.header THEN 6 ELSE 0)
  + (IF a.footer THEN 4 ELSE 0)
  - (IF a.adword THEN 5 ELSE 0)
  + (IF a.textLen > 3 /\ a.textLen < 50 THEN 2 ELSE 0)

\* list.sort(key=score, reverse=True): descending and stable.
RECURSIVE InsertDesc(_, _)
InsertDesc(x, ys) ==
  IF ys = <<>> THEN <<x>>
  ELSE IF Head(ys)[2] <= x[2] THEN <<x>> \o ys
  ELSE <<Head(ys)>> \o InsertDesc(x, Tail(ys))

RECURSIVE SortDesc(_)
SortDesc(xs) ==
  IF xs = <<>> THEN <<>> ELSE InsertDesc(Head(xs), SortDesc(Tail(xs)))

\* The (href, score) pairs of the anchors on one side of the classification,
\* in document order.  The classification resolves the href against the
\* placeholder base, not against the audited page.
RECURSIVE Scored(_, _)
Scored(anchors, side) ==
  IF anchors = <<>> THEN <<>>
  ELSE LET a == Head(anchors)
           rest == Scored(Tail(anchors), side)
           full_url == _absolute_url(Placeholder, a.href)
           here == IF _is_internal(Placeholder, full_url) THEN "internal" ELSE "external"
       IN IF a.href.scheme \in SkippedSchemes THEN rest
          ELSE IF here = side THEN << <<a.href, LinkScore(a)>> >> \o rest
          ELSE rest

Hrefs(pairs) == [i \in 1..Len(pairs) |-> pairs[i][1]]

\* The slice one too long.
Truncate_offByOne(ranked, max_links) == Take(ranked, max_links + 1)

Truncate(ranked, max_links) == Take(ranked, max_links)

_smart_link_sampling(anchors, max_links) ==
  [internal |-> Hrefs(Truncate(SortDesc(Scored(anchors, "internal")), max_links)),
   external |-> Hrefs(Truncate(SortDesc(Scored(anchors, "external")), max_links))]

Range(xs) == {xs[i] : i \in 1..Len(xs)}

\* unique(xs) of _check_links: the first occurrence of each element.
RECURSIVE UniqueFrom(_, _)
UniqueFrom(xs, seen) ==
  IF xs = <<>> THEN <<>>
  ELSE IF Head(xs) \in seen THEN UniqueFrom(Tail(xs), seen)
  ELSE <<Head(xs)>> \o UniqueFrom(Tail(xs), seen \cup {Head(xs)})

\* unique without its seen set.
unique_keepsAll(xs) == xs

unique(xs) == UniqueFrom(xs, {})

\* ------------------------------------------------------------------ scoring
\* deduct with the sign of the points wrong.
deduct_adds(acc, points, reason) ==
  [score |-> acc.score + points,
   deductions |-> Append(acc.deductions, "-" \o ToString(points) \o ": " \o reason)]

\* deduct taking one point whatever the condition costs.
deduct_onePoint(acc, points, reason) ==
  [score |-> acc.score - 1,
   deductions |-> Append(acc.deductions, "-" \o ToString(points) \o ": " \o reason)]

deduct(acc, points, reason) ==
  [score |-> acc.score - points,
   deductions |-> Append(acc.deductions, "-" \o ToString(points) \o ": " \o reason)]

\* The conditions of _score in the order the code tests them.
ScoreTable(report) ==
  LET op == report.on_page
      so == report.social_structured
      li == report.links
      te == report.technical
      rs == report.robots_sitemap
  IN << <<op.title_info.issues # <<>>, 5, "Title issues">>,
        <<op.meta_description_info.issues # <<>>, 5, "Meta description issues">>,
        <<op.h1_info.issues # <<>>, 5, "H1 count issues">>,
        <<op.images_missing_alt > 5, 3, "Many images missing alt">>,
        <<op.canonical_info.issues # <<>>, 2, "Canonical issues">>,
        <<~op.has_viewport_meta, 2, "Missing viewport">>,
        <<op.meta_robots.noindex, 10, "noindex set">>,
        <<~so.open_graph, 2, "Missing Open Graph">>,
        <<~so.twitter_card, 1, "Missing Twitter Card">>,
        <<so.json_ld_errors > 0, 2, "Invalid JSON-LD">>,
        <<Len(li.broken_internal) > 0, 5, "Broken internal links">>,
        <<Len(li.broken_external) > 3, 2, "Multiple broken external links">>,
        <<te.response_time_ms > 1500, 5, "Slow TTFB">>,
        <<te.content_length > 2 * 1024 * 1024, 4, "Large page size">>,
        <<~te.hsts /\ report.url.scheme = "https", 2, "Missing HSTS">>,
        <<~te.x_content_type_options, 1, "Missing X-Content-Type-Options">>,
        <<~te.x_frame_options, 1, "Missing X-Frame-Options">>,
        <<~te.referrer_policy, 1, "Missing Referrer-Policy">>,
        <<~te.csp, 1, "Missing CSP">>,
        <<rs.robots_txt # "Present", 2, "Missing robots.txt">>,
        <<rs.sitemap # "Present", 2, "Missing sitemap.xml">> >>

RECURSIVE ApplyTable(_, _)
ApplyTable(table, acc) ==
  IF table = <<>> THEN acc
  ELSE LET row == Head(table) IN
       ApplyTable(Tail(table), IF row[1] THEN deduct(acc, row[2], row[3]) ELSE acc)

\* _score with every deduction made twice.
_score_twice(report) ==
  LET once == ApplyTable(ScoreTable(report), [score |-> StartScore, deductions |-> <<>>])
      end == ApplyTable(ScoreTable(report), [score |-> once.score, deductions |-> <<>>])
  IN [overall |-> Max(end.score, 0), deductions |-> end.deductions]

_score(report) ==
  LET end == ApplyTable(ScoreTable(report), [score |-> StartScore, deductions |-> <<>>])
  IN [overall |-> Max(end.score, 0), deductions |-> end.deductions]

\* ------------------------------------------------------------------- inputs
DocClean ==
  [hasTitle |-> TRUE, titleLen |-> 45, hasDesc |-> TRUE, descLen |-> 140, h1Count |-> 1,
   imgTotal |-> 2, imgMissingAlt |-> 0, canonical |-> Url("", "", "/"),
   viewport |-> TRUE, noindex |-> FALSE, nofollow |-> FALSE, lang |-> TRUE,
   charset |-> TRUE, hreflangs |-> 0, xDefault |-> FALSE, og |-> TRUE,
   twitter |-> TRUE, jsonld |-> <<TRUE>>]

DocWorst ==
  [hasTitle |-> FALSE, titleLen |-> 0, hasDesc |-> FALSE, descLen |-> 0, h1Count |-> 0,
   imgTotal |-> 7, imgMissingAlt |-> 6, canonical |-> Url("https", "other.com", "/"),
   viewport |-> FALSE, noindex |-> TRUE, nofollow |-> TRUE, lang |-> FALSE,
   charset |-> FALSE, hreflangs |-> 1, xDefault |-> FALSE, og |-> FALSE,
   twitter |-> FALSE, jsonld |-> <<FALSE, TRUE>>]

DocScenario ==
  [DocClean EXCEPT !.hasTitle = FALSE, !.titleLen = 0, !.hasDesc = FALSE, !.descLen = 0,
                   !.h1Count = 2, !.imgMissingAlt = 1]

AllHeaders ==
  [n \in {"content-length", "strict-transport-security", "x-content-type-options",
          "x-frame-options", "referrer-policy", "content-security-policy"} |->
     CASE n = "content-length" -> Digits(5000)
       [] n = "x-content-type-options" -> "nosniff"
       [] OTHER -> "set"]

Without(headers, names) == [n \in DOMAIN headers \ names |-> headers[n]]

\* What the audited server returns: the page's answer, its headers and
\* document, and the answers of the robots.txt and sitemap.xml probes.
Site(ans, ms, headers, doc, robots, sitemap) ==
  [answer |-> ans, elapsed_ms |-> ms, headers |-> headers, doc |-> doc,
   robots |-> robots, sitemap |-> sitemap]

SiteClean ==
  Site(Answer(FALSE, 200), 120, AllHeaders, DocClean, Answer(FALSE, 200), Answer(FALSE, 200))

SiteWorst ==
  Site(Answer(FALSE, 200), 2000, [n \in {"content-length"} |-> Digits(3 * 1024 * 1024)],
       DocWorst, Answer(FALSE, 404), Answer(TRUE, 0))

SiteScenario ==
  Site(Answer(FALSE, 200), 120, Without(AllHeaders, {"strict-transport-security"}),
       DocScenario, Answer(FALSE, 200), Answer(TRUE, 0))

Sites == {SiteClean, SiteWorst, SiteScenario}

\* A page sent with a Content-Length that is not a number.
SiteBadLength == [SiteClean EXCEPT !.headers["content-length"] = NotDigits]

\* The main page fetch fails, or answers with an error status.  http.client
\* accepts any three-digit status, so 600 is one a server can send.
FailedAnswers == {Answer(TRUE, 0), Answer(FALSE, 404), Answer(FALSE, 503), Answer(FALSE, 600)}

FailedSites == {[SiteClean EXCEPT !.answer = a] : a \in FailedAnswers}

Anchor(href, nav, text) ==
  [href |-> href, nav |-> nav, main |-> FALSE, header |-> FALSE, footer |-> FALSE,
   adword |-> FALSE, textLen |-> text]

AnchorPool ==
  {Anchor(Url("", "", "/about"), TRUE, 5),
   Anchor(Url("https", "site.com", "/gone"), FALSE, 0),
   Anchor(Url("https", "site.com", "/moved"), FALSE, 5),
   Anchor(Url("https", "ext.com", "/down"), FALSE, 0),
   Anchor(Url("https", "ext.com", "/nohead"), TRUE, 0),
   Anchor(Url("https", "ext.com", "/ok"), FALSE, 0),
   Anchor(Url("https", "site.com", "/flaky"), FALSE, 0),
   [Anchor(Url("https", "ext.com", "/ad"), FALSE, 0) EXCEPT !.adword = TRUE, !.footer = TRUE],
   Anchor(Url("mailto", "", "x"), FALSE, 5)}

AnchorLists == UNION {[1..n -> AnchorPool] : n \in 0..MaxAnchors}

\* A page with three links to its own site, one that answers 404, one that
\* answers 301 and one that answers 200, written as relative hrefs or as
\* absolute ones.
ThreeInternal(form) ==
  LET href(path) == IF form = "relative" THEN Url("", "", path)
                    ELSE Url("https", "site.com", path)
  IN <<Anchor(href("/gone"), FALSE, 5), Anchor(href("/moved"), FALSE, 5),
       Anchor(href("/ok"), FALSE, 5)>>

ThreeLinkPages == {ThreeInternal("relative"), ThreeInternal("absolute")}

\* A page with ManyLinks distinct external links.
ManyAnchors ==
  [i \in 1..ManyLinks |-> Anchor(Url("https", "ext.com", "/p" \o ToString(i)), FALSE, 0)]

\* A page with ManyLinks distinct external links that cannot be reached.
ManyBroken ==
  [i \in 1..ManyLinks |->
     Anchor(Url("https", "e" \o ToString(i) \o ".com", "/down"), FALSE, 0)]

\* A call of the engine: through which entry point, and the caller's
\* arguments (fast is the CLI's --fast and the form's fast_mode).
Call(entry, max_links, workers, fast) ==
  [entry |-> entry, url |-> Url("", "site.com", "/"), max_links |-> max_links,
   workers |-> workers, fast |-> fast]

Calls ==
       {Call("direct", m, w, FALSE) : m \in 0..MaxLinks, w \in 0..MaxWorkers}
  \cup {Call(e, MaxLinks, w, f) : e \in {"cli", "web"}, w \in {1, WorkerCap + 1}, f \in BOOLEAN}

\* -------------------------------------------------------------------- state
VARIABLES
  pc,        \* where the run stands: "entry", "fetch", "checks", "robots",
             \* "links", "pool", "score", "returned", "raised", "presented"
  call,      \* the caller's request
  site,      \* what the audited server returns
  anchors,   \* the <a href> elements of the page, in document order
  args,      \* the arguments seo_audit is called with: url, max_links, workers
  report,    \* the report dict under construction
  sampled,   \* internal and external of _check_links, after unique
  tasks,     \* the futures of the pool, in submission order
  broken_internal, broken_external, redirects   \* the buckets of _check_links

vars == <<pc, call, site, anchors, args, report, sampled, tasks,
          broken_internal, broken_external, redirects>>

NoArgs == [url |-> NoHref, max_links |-> 0, workers |-> 0]

NoReport ==
  [url |-> NoHref, on_page |-> Empty, social_structured |-> Empty, links |-> Empty,
   technical |-> Empty, robots_sitemap |-> Empty, recommendations |-> <<>>,
   score |-> Empty, meta |-> Empty]

InitWith(c, s, a) ==
  /\ pc = "entry"
  /\ call = c
  /\ site = s
  /\ anchors = a
  /\ args = NoArgs
  /\ report = NoReport
  /\ sampled = [internal |-> <<>>, external |-> <<>>]
  /\ tasks = <<>>
  /\ broken_internal = <<>>
  /\ broken_external = <<>>
  /\ redirects = <<>>

Init ==
  \E c \in Calls :
     \/ \E s \in Sites, a \in AnchorLists : InitWith(c, s, a)
     \/ \E s \in FailedSites \cup {SiteBadLength} : InitWith(c, s, <<>>)
     \/ \E a \in ThreeLinkPages :
           c.entry = "direct" /\ c.workers > 0 /\ c.max_links = MaxLinks
           /\ InitWith([c EXCEPT !.max_links = DefaultMaxLinks], SiteClean, a)

\* ------------------------------------------------------------- entry points
\* What each entry point passes to seo_audit.  The CLI and the web routes
\* cap the worker count and turn fast mode into max_links = 0; a direct call
\* passes the caller's values as they are.
PassedWorkers(c) ==
  IF c.entry = "direct" THEN c.workers ELSE Min(c.workers, WorkerCap)

PassedMaxLinks(c) ==
  IF c.entry # "direct" /\ c.fast THEN 0 ELSE c.max_links

\* The call, and seo_audit up to the empty report.
Enter ==
  /\ pc = "entry"
  /\ args' = [url |-> _ensure_url_scheme(call.url),
              max_links |-> PassedMaxLinks(call),
              workers |-> PassedWorkers(call)]
  /\ report' = [NoReport EXCEPT !.url = _ensure_url_scheme(call.url)]
  /\ pc' = "fetch"
  /\ UNCHANGED <<call, site, anchors, sampled, tasks,
                 broken_internal, broken_external, redirects>>

\* ----------------------------------------------------------- the page fetch
\* A failure report that also carries the timing of the failed fetch.
FailureReport_withTiming(rep, technical, rec, deduction) ==
  [rep EXCEPT !.technical = [error |-> technical.error, response_time_ms |-> 0],
              !.recommendations = Append(rep.recommendations, rec),
              !.score = [overall |-> 0, deductions |-> <<deduction>>]]

FailureReport(rep, technical, rec, deduction) ==
  [rep EXCEPT !.technical = technical,
              !.recommendations = Append(rep.recommendations, rec),
              !.score = [overall |-> 0, deductions |-> <<deduction>>]]

Message(ans) == IF ans.exc THEN "ConnectionError" ELSE "None"

\* `if not response`: no response, or one that is falsy.
FetchUnreachable ==
  /\ pc = "fetch"
  /\ ~Truthy(site.answer)
  /\ report' = FailureReport(report, [error |-> Message(site.answer)],
                             "Could not fetch website: " \o Message(site.answer),
                             "Critical: site unreachable")
  /\ pc' = "returned"
  /\ UNCHANGED <<call, site, anchors, args, sampled, tasks,
                 broken_internal, broken_external, redirects>>

\* `if response.status_code >= 400`
FetchHttpError ==
  /\ pc = "fetch"
  /\ Truthy(site.answer)
  /\ site.answer.status >= 400
  /\ report' = FailureReport(report,
                             [status_code |-> site.answer.status,
                              response_time_ms |-> site.elapsed_ms],
                             "Website returned status code "
                                \o ToString(site.answer.status) \o ". Check server health.",
                             "Critical: HTTP error")
  /\ pc' = "returned"
  /\ UNCHANGED <<call, site, anchors, args, sampled, tasks,
                 broken_internal, broken_external, redirects>>

\* The audit going on whatever the fetch gave.
FetchOk_anyAnswer ==
  /\ pc = "fetch"
  /\ pc' = "checks"
  /\ UNCHANGED <<call, site, anchors, args, report, sampled, tasks,
                 broken_internal, broken_external, redirects>>

FetchOk ==
  /\ pc = "fetch"
  /\ Truthy(site.answer)
  /\ site.answer.status < 400
  /\ pc' = "checks"
  /\ UNCHANGED <<call, site, anchors, args, report, sampled, tasks,
                 broken_internal, broken_external, redirects>>

\* ------------------------------------------------------ the document checks
\* The on-page checks, the social check and the technical headers, in the
\* order seo_audit runs them.
TechnicalHeaders ==
  _check_technical_headers(args.url,
     [status |-> site.answer.status, elapsed_ms |-> site.elapsed_ms,
      headers |-> site.headers])

DocumentChecks ==
  /\ pc = "checks"
  /\ ~TechnicalHeaders.raises
  /\ LET doc == site.doc
         t == _check_title(doc)
         d == _check_meta_description(doc)
         h == _check_h1(doc)
         i == _check_images(doc)
         c == _check_canonical(args.url, doc)
         v == _check_viewport(doc)
         r == _check_meta_robots(doc)
         l == _check_lang_and_charset(doc)
         f == _check_hreflang(doc)
         s == _check_social_and_structured(doc)
         x == TechnicalHeaders
     IN report' =
          [report EXCEPT
             !.on_page = [title |-> t.title, title_info |-> t.info,
                          meta_description |-> d.content,
                          meta_description_info |-> d.info,
                          h1_info |-> h.info,
                          images_missing_alt |-> i.missing, images_info |-> i.info,
                          canonical |-> c.href, canonical_info |-> c.info,
                          has_viewport_meta |-> v.has, meta_robots |-> r.info,
                          lang_charset |-> l.info, hreflang |-> f.hreflangs],
             !.social_structured = s.data,
             !.technical = x.tech,
             !.recommendations = report.recommendations \o t.recs \o d.recs \o h.recs
                 \o i.recs \o c.recs \o v.recs \o r.recs \o l.recs \o f.recs
                 \o s.recs \o x.recs]
  /\ pc' = "robots"
  /\ UNCHANGED <<call, site, anchors, args, sampled, tasks,
                 broken_internal, broken_external, redirects>>

\* The ValueError of _check_technical_headers leaves seo_audit.
ChecksRaise ==
  /\ pc = "checks"
  /\ TechnicalHeaders.raises
  /\ pc' = "raised"
  /\ UNCHANGED <<call, site, anchors, args, report, sampled, tasks,
                 broken_internal, broken_external, redirects>>

\* The probe's recommendations put in front of the list.
ProbeRobots_prepends ==
  /\ pc = "robots"
  /\ LET rs == _check_robots_and_sitemap(site.robots, site.sitemap) IN
     report' = [report EXCEPT !.robots_sitemap = rs.info,
                              !.recommendations = rs.recs \o report.recommendations]
  /\ pc' = "links"
  /\ UNCHANGED <<call, site, anchors, args, sampled, tasks,
                 broken_internal, broken_external, redirects>>

ProbeRobots ==
  /\ pc = "robots"
  /\ LET rs == _check_robots_and_sitemap(site.robots, site.sitemap) IN
     report' = [report EXCEPT !.robots_sitemap = rs.info,
                              !.recommendations = report.recommendations \o rs.recs]
  /\ pc' = "links"
  /\ UNCHANGED <<call, site, anchors, args, sampled, tasks,
                 broken_internal, broken_external, redirects>>

\* ---------------------------------------------------------- link validation
\* A task is one future of the pool: the link head_or_get was submitted
\* with, its phase ("queued", "head": the HEAD is in flight, "get": the GET
\* is in flight, "done": head_or_get has returned, "folded": the caller has
\* taken the result), the requests made for it, and what head_or_get
\* returned: a response with a status, or None.
Task(link) ==
  [link |-> link, phase |-> "queued", heads |-> 0, gets |-> 0,
   none |-> FALSE, status |-> 0]

InFlight == {i \in 1..Len(tasks) : tasks[i].phase \in {"head", "get"}}

Queued == {i \in 1..Len(tasks) : tasks[i].phase = "queued"}

Lowest(S) == CHOOSE i \in S : \A j \in S : i <= j

\* _smart_link_sampling, unique, ThreadPoolExecutor(max_workers=workers) and
\* the submission of internal + external.
PoolSize(workers) == workers

SubmitLinks ==
  /\ pc = "links"
  /\ PoolSize(args.workers) > 0
  /\ LET picked == _smart_link_sampling(anchors, args.max_links)
         internal == unique(picked.internal)
         external == unique(picked.external)
         links == internal \o external
     IN /\ sampled' = [internal |-> internal, external |-> external]
        /\ tasks' = [i \in 1..Len(links) |-> Task(links[i])]
  /\ pc' = "pool"
  /\ UNCHANGED <<call, site, anchors, args, report,
                 broken_internal, broken_external, redirects>>

\* ThreadPoolExecutor raises ValueError for max_workers <= 0.
PoolRaises ==
  /\ pc = "links"
  /\ PoolSize(args.workers) <= 0
  /\ pc' = "raised"
  /\ UNCHANGED <<call, site, anchors, args, report, sampled, tasks,
                 broken_internal, broken_external, redirects>>

\* A free worker thread takes the oldest queued task and sends its HEAD.
StartProbe ==
  /\ pc = "pool"
  /\ Queued # {}
  /\ Cardinality(InFlight) < PoolSize(args.workers)
  /\ LET i == Lowest(Queued) IN
     tasks' = [tasks EXCEPT ![i].phase = "head", ![i].heads = @ + 1]
  /\ UNCHANGED <<pc, call, site, anchors, args, report, sampled,
                 broken_internal, broken_external, redirects>>

\* The retry only for the statuses that say the method is not supported.
NeedsGet_onlyMethodErrors(status) == status \in {405, 501}

\* When the HEAD asks for the retry with GET.
NeedsGet(status) == status >= 400 \/ status \in {405, 501}

\* A worker that records its own failure in the bucket.
HeadReturns_recordsItself(i) ==
  /\ pc = "pool"
  /\ i \in 1..Len(tasks)
  /\ tasks[i].phase = "head"
  /\ LET ans == Web("HEAD", tasks[i].link) IN
     /\ tasks' = IF ans.exc
                 THEN [tasks EXCEPT ![i].phase = "done", ![i].none = TRUE]
                 ELSE IF NeedsGet(ans.status)
                 THEN [tasks EXCEPT ![i].phase = "get", ![i].gets = @ + 1]
                 ELSE [tasks EXCEPT ![i].phase = "done", ![i].status = ans.status]
     /\ broken_external' = IF ans.exc THEN Append(broken_external, <<tasks[i].link, 0>>)
                           ELSE broken_external
  /\ UNCHANGED <<pc, call, site, anchors, args, report, sampled,
                 broken_internal, redirects>>

\* The HEAD of task i returns or raises.
HeadReturns(i) ==
  /\ pc = "pool"
  /\ i \in 1..Len(tasks)
  /\ tasks[i].phase = "head"
  /\ LET ans == Web("HEAD", tasks[i].link) IN
     tasks' = IF ans.exc
              THEN [tasks EXCEPT ![i].phase = "done", ![i].none = TRUE]
              ELSE IF NeedsGet(ans.status)
              THEN [tasks EXCEPT ![i].phase = "get", ![i].gets = @ + 1]
              ELSE [tasks EXCEPT ![i].phase = "done", ![i].status = ans.status]
  /\ UNCHANGED <<pc, call, site, anchors, args, report, sampled,
                 broken_internal, broken_external, redirects>>

\* The GET of task i returns or raises.
GetReturns(i) ==
  /\ pc = "pool"
  /\ i \in 1..Len(tasks)
  /\ tasks[i].phase = "get"
  /\ LET ans == Web("GET", tasks[i].link) IN
     tasks' = IF ans.exc
              THEN [tasks EXCEPT ![i].phase = "done", ![i].none = TRUE]
              ELSE [tasks EXCEPT ![i].phase = "done", ![i].status = ans.status]
  /\ UNCHANGED <<pc, call, site, anchors, args, report, sampled,
                 broken_internal, broken_external, redirects>>

\* The bucket a broken link goes to: by the audited page's host.
BrokenSide(base_url, link) ==
  IF _is_internal(base_url, link) THEN "internal" ELSE "external"

\* The loop with `except Exception: pass`: a failed probe leaves no trace.
Fold_swallows(i) ==
  /\ pc = "pool"
  /\ i \in 1..Len(tasks)
  /\ tasks[i].phase = "done"
  /\ tasks' = [tasks EXCEPT ![i].phase = "folded"]
  /\ LET link == tasks[i].link
         status == tasks[i].status
         broken == ~tasks[i].none /\ status >= 400
         side == BrokenSide(args.url, link)
     IN /\ redirects' = IF ~tasks[i].none /\ 300 <= status /\ status < 400
                        THEN Append(redirects, <<link, status>>) ELSE redirects
        /\ broken_internal' = IF broken /\ side = "internal"
                              THEN Append(broken_internal, <<link, status>>)
                              ELSE broken_internal
        /\ broken_external' = IF broken /\ side = "external"
                              THEN Append(broken_external, <<link, status>>)
                              ELSE broken_external
  /\ UNCHANGED <<pc, call, site, anchors, args, report, sampled>>

\* The loop taking every status from 300 on as broken.
Fold_brokenFrom300(i) ==
  /\ pc = "pool"
  /\ i \in 1..Len(tasks)
  /\ tasks[i].phase = "done"
  /\ tasks' = [tasks EXCEPT ![i].phase = "folded"]
  /\ LET link == tasks[i].link
         status == IF tasks[i].none THEN 0 ELSE tasks[i].status
         broken == tasks[i].none \/ status >= 300
         side == BrokenSide(args.url, link)
     IN /\ redirects' = IF ~tasks[i].none /\ 300 <= status /\ status < 400
                        THEN Append(redirects, <<link, status>>) ELSE redirects
        /\ broken_internal' = IF broken /\ side = "internal"
                              THEN Append(broken_internal, <<link, status>>)
                              ELSE broken_internal
        /\ broken_external' = IF broken /\ side = "external"
                              THEN Append(broken_external, <<link, status>>)
                              ELSE broken_external
  /\ UNCHANGED <<pc, call, site, anchors, args, report, sampled>>

\* One turn of the as_completed loop: the caller takes a finished future.
\* A None result raises on resp.status_code and is recorded with status 0.
Fold(i) ==
  /\ pc = "pool"
  /\ i \in 1..Len(tasks)
  /\ tasks[i].phase = "done"
  /\ tasks' = [tasks EXCEPT ![i].phase = "folded"]
  /\ LET link == tasks[i].link
         status == IF tasks[i].none THEN 0 ELSE tasks[i].status
         broken == tasks[i].none \/ status >= 400
         side == BrokenSide(args.url, link)
     IN /\ redirects' = IF ~tasks[i].none /\ 300 <= status /\ status < 400
                        THEN Append(redirects, <<link, status>>) ELSE redirects
        /\ broken_internal' = IF broken /\ side = "internal"
                              THEN Append(broken_internal, <<link, status>>)
                              ELSE broken_internal
        /\ broken_external' = IF broken /\ side = "external"
                              THEN Append(broken_external, <<link, status>>)
                              ELSE broken_external
  /\ UNCHANGED <<pc, call, site, anchors, args, report, sampled>>

\* A pool that is left as soon as every task has been started.
AllComplete_noWait == Queued = {}

\* A loop that is left after the first result it has taken.
AllComplete_firstResult ==
  tasks = <<>> \/ \E i \in 1..Len(tasks) : tasks[i].phase = "folded"

\* The as_completed loop ends when it has yielded every future, and the
\* with block when the pool has shut down.
AllComplete == \A i \in 1..Len(tasks) : tasks[i].phase = "folded"

\* The rest of _check_links: the link recommendations and the links section.
FinishLinks ==
  /\ pc = "pool"
  /\ AllComplete
  /\ report' =
       [report EXCEPT
          !.links = [internal_count |-> Len(sampled.internal),
                     external_count |-> Len(sampled.external),
                     broken_internal |-> Take(broken_internal, BucketLimit),
                     broken_external |-> Take(broken_external, BucketLimit),
                     redirects |-> Take(redirects, BucketLimit)],
          !.recommendations = report.recommendations
             \o (IF broken_internal # <<>>
                 THEN <<ToString(Len(broken_internal)) \o " internal links appear broken.">>
                 ELSE <<>>)
             \o (IF redirects # <<>>
                 THEN <<ToString(Len(redirects))
                          \o " links redirect; update to final URLs where possible.">>
                 ELSE <<>>)]
  /\ pc' = "score"
  /\ UNCHANGED <<call, site, anchors, args, sampled, tasks,
                 broken_internal, broken_external, redirects>>

\* The return without the score.
ScoreAndReturn_unscored ==
  /\ pc = "score"
  /\ report' = [report EXCEPT !.meta = [analysis_time |-> site.elapsed_ms,
                                        workers_used |-> args.workers]]
  /\ pc' = "returned"
  /\ UNCHANGED <<call, site, anchors, args, sampled, tasks,
                 broken_internal, broken_external, redirects>>

\* _score, the run metadata and the return.
ScoreAndReturn ==
  /\ pc = "score"
  /\ report' = [report EXCEPT !.score = _score(report),
                              !.meta = [analysis_time |-> site.elapsed_ms,
                                        workers_used |-> args.workers]]
  /\ pc' = "returned"
  /\ UNCHANGED <<call, site, anchors, args, sampled, tasks,
                 broken_internal, broken_external, redirects>>

\* ------------------------------------------------------------- presentation
\* The web routes index and full time the whole call and write the run
\* metadata into the report they got before they render it.  The time they
\* measure is the time of the page fetch and of what came after it.
PresentWeb ==
  /\ pc = "returned"
  /\ call.entry = "web"
  /\ \E rest \in {0, 1} :
       report' = [report EXCEPT !.meta = [analysis_time |-> site.elapsed_ms + rest,
                                          workers_used |-> PassedWorkers(call),
                                          fast_mode |-> call.fast]]
  /\ pc' = "presented"
  /\ UNCHANGED <<call, site, anchors, args, sampled, tasks,
                 broken_internal, broken_external, redirects>>

\* main prints the report, dumps it as JSON and renders it; _build_summary
\* and _render_html only read it.
PresentCli ==
  /\ pc = "returned"
  /\ call.entry = "cli"
  /\ pc' = "presented"
  /\ UNCHANGED <<call, site, anchors, args, report, sampled, tasks,
                 broken_internal, broken_external, redirects>>

\* ------------------------------------------------------------ specification
Next ==
  \/ Enter
  \/ FetchUnreachable
  \/ FetchHttpError
  \/ FetchOk
  \/ DocumentChecks
  \/ ChecksRaise
  \/ ProbeRobots
  \/ SubmitLinks
  \/ PoolRaises
  \/ StartProbe
  \/ \E i \in 1..Len(tasks) : HeadReturns(i)
  \/ \E i \in 1..Len(tasks) : GetReturns(i)
  \/ \E i \in 1..Len(tasks) : Fold(i)
  \/ FinishLinks
  \/ ScoreAndReturn
  \/ PresentWeb
  \/ PresentCli

Spec == Init /\ [][Next]_vars

\* The engine with its threads scheduled: the calling thread goes on, every
\* request returns or times out, and a free worker takes the next task, so
\* a step that can be taken is taken.
LivePages ==
  {<<>>,
   <<Anchor(Url("https", "site.com", "/flaky"), FALSE, 0),
     Anchor(Url("https", "ext.com", "/down"), FALSE, 0)>>}

InitLive ==
  \E c \in Calls, s \in {SiteClean, SiteBadLength} \cup FailedSites, a \in LivePages :
     InitWith(c, s, a)

SpecLive == InitLive /\ [][Next]_vars /\ WF_vars(Next)

\* A page with many links, audited through each entry point with more
\* workers asked for than the cap.  The probes finish in the order they
\* started: these runs are some of the runs of the engine, enough to reach
\* the largest number of probes in flight.
InitMany ==
  \E e \in {"direct", "cli", "web"}, page \in {ManyAnchors, ManyBroken} :
     InitWith(Call(e, DefaultMaxLinks, WorkerCap + 1, FALSE), SiteClean, page)

Done == {i \in 1..Len(tasks) : tasks[i].phase = "done"}

HeadReturnsInOrder == InFlight # {} /\ HeadReturns(Lowest(InFlight))

FoldInOrder == Done # {} /\ Fold(Lowest(Done))

NextMany ==
  \/ Enter
  \/ FetchOk
  \/ DocumentChecks
  \/ ProbeRobots
  \/ SubmitLinks
  \/ StartProbe
  \/ HeadReturnsInOrder
  \/ FoldInOrder
  \/ FinishLinks
  \/ ScoreAndReturn

SpecMany == InitMany /\ [][NextMany]_vars

\* The document checks as functions of the document: pages that differ in
\* their title and in their JSON-LD blocks, audited without link validation.
TitleDocs ==
       {[DocClean EXCEPT !.hasTitle = FALSE, !.titleLen = 0]}
  \cup {[DocClean EXCEPT !.titleLen = n] : n \in 0..MaxTitleLen}

JsonLdLists == UNION {[1..n -> BOOLEAN] : n \in 0..MaxJsonLd}

InitDoc ==
  \E d \in TitleDocs, j \in JsonLdLists :
     InitWith(Call("direct", 0, 1, FALSE),
              [SiteClean EXCEPT !.doc = [d EXCEPT !.jsonld = j]], <<>>)

NextDoc ==
  \/ Enter
  \/ FetchOk
  \/ DocumentChecks
  \/ ProbeRobots
  \/ SubmitLinks
  \/ FinishLinks
  \/ ScoreAndReturn

SpecDoc == InitDoc /\ [][NextDoc]_vars

\* The scored signals as functions of the response and the page: every
\* choice of headers sent, over http and https, for the clean and the
\* all-failing document, without links and with one broken internal link
\* and four broken external ones; and the main page fetches that fail.
HeaderNames == DOMAIN AllHeaders

PickHeaders(present, nosniff, length) ==
  [n \in present |->
     CASE n = "content-length" -> length
       [] n = "x-content-type-options" -> nosniff
       [] OTHER -> "set"]

HeaderSets ==
  {PickHeaders(P, x, l) : P \in SUBSET HeaderNames, x \in {"nosniff", "NoSniff"},
                          l \in {Digits(5000), Digits(3 * 1024 * 1024)}}

WorstLinks ==
  <<Anchor(Url("https", "site.com", "/gone"), FALSE, 5)>> \o SubSeq(ManyBroken, 1, 4)

InitSignals ==
  \/ \E base \in {SiteClean, SiteWorst}, h \in HeaderSets,
        scheme \in {"http", "https"}, page \in {<<>>, WorstLinks} :
        InitWith([Call("direct", DefaultMaxLinks, 1, FALSE)
                    EXCEPT !.url = Url(scheme, "site.com", "/")],
                 [base EXCEPT !.headers = h], page)
  \/ \E s \in FailedSites :
        InitWith(Call("direct", DefaultMaxLinks, 1, FALSE), s, <<>>)

NextSignals ==
  \/ Enter
  \/ FetchUnreachable
  \/ FetchHttpError
  \/ FetchOk
  \/ DocumentChecks
  \/ ProbeRobots
  \/ SubmitLinks
  \/ StartProbe
  \/ \E i \in 1..Len(tasks) : HeadReturns(i)
  \/ \E i \in 1..Len(tasks) : GetReturns(i)
  \/ \E i \in 1..Len(tasks) : Fold(i)
  \/ FinishLinks
  \/ ScoreAndReturn

SpecSignals == InitSignals /\ [][NextSignals]_vars

\* ------------------------------------------------------------------- shapes
Returned == pc = "returned"

HasScore(r) == DOMAIN r.score = {"overall", "deductions"}

IsFailureReport(r) ==
  /\ IsEmpty(r.on_page) /\ IsEmpty(r.social_structured)
  /\ IsEmpty(r.links) /\ IsEmpty(r.robots_sitemap)
  /\ HasScore(r) /\ r.score.overall = 0
  /\ Len(r.recommendations) = 1
  /\ Len(r.score.deductions) = 1

IsFullReport(r) ==
  /\ ~IsEmpty(r.on_page) /\ ~IsEmpty(r.social_structured)
  /\ ~IsEmpty(r.links) /\ ~IsEmpty(r.technical) /\ ~IsEmpty(r.robots_sitemap)
  /\ HasScore(r) /\ r.score = _score(r)

\* The page's own host decides what an internal link is.
InternalLink(link) == _is_internal(args.url, link)

Probed(side) ==
  {i \in 1..Len(tasks) : tasks[i].heads > 0 /\ InternalLink(tasks[i].link) = side}

LinkRecommendations ==
  UNION {{ToString(n) \o " internal links appear broken.",
          ToString(n) \o " links redirect; update to final URLs where possible."} :
         n \in 0..(2 * DefaultMaxLinks)}

\* ------------------------------------------------------------------- claims
\* C1: every report seo_audit returns, a failure report or a full one, has
\* score.overall between 0 and 100.
C1_ScoreInRange ==
  Returned => HasScore(report) /\ report.score.overall \in 0..100

\* A full report with deductions has been returned.
C1_Witness ==
  /\ Returned
  /\ IsFullReport(report)
  /\ Len(report.score.deductions) > 10
  /\ report.score.overall < StartScore

\* C2 as stated: when the page fetch raises, the report has score.overall = 0
\* and its on_page, links and technical sections are all empty.
C2_Original ==
  (Returned /\ site.answer.exc) =>
     /\ report.score.overall = 0
     /\ IsEmpty(report.on_page) /\ IsEmpty(report.links) /\ IsEmpty(report.technical)

\* C2 as amended: when the page fetch raises, the report has score.overall = 0,
\* its on_page and links sections are empty, and its technical section holds
\* the error message and nothing else.
C2_FetchFailureReport ==
  (Returned /\ site.answer.exc) =>
     /\ report.score.overall = 0
     /\ IsEmpty(report.on_page) /\ IsEmpty(report.links)
     /\ DOMAIN report.technical = {"error"}
     /\ report.technical.error = Message(site.answer)

\* The fetch has raised and the report has been returned.
C2_Witness == Returned /\ site.answer.exc /\ HasScore(report)

\* C3: a main page that answers with a status >= 400 gives a failure report
\* with that status in technical.status_code and no technical.error, exactly
\* one recommendation, which names the status, and score.overall = 0.
C3_HttpErrorCarriesStatus ==
  (Returned /\ ~site.answer.exc /\ site.answer.status >= 400) =>
     /\ "status_code" \in DOMAIN report.technical
     /\ "error" \notin DOMAIN report.technical
     /\ report.technical.status_code = site.answer.status
     /\ report.recommendations =
          <<"Website returned status code " \o ToString(site.answer.status)
              \o ". Check server health.">>
     /\ report.score.overall = 0

\* C4: with max_links = N, probes are sent for at most N links of the page's
\* own host and for at most N links of other hosts.
C4_SamplingRespectsBudget ==
  pc \in {"pool", "score", "returned"} =>
     /\ Cardinality(Probed(TRUE)) <= args.max_links
     /\ Cardinality(Probed(FALSE)) <= args.max_links

\* C5: with max_links = 0 no link is submitted and no HEAD or GET is sent,
\* and the full report has both counts 0, the three buckets empty and no
\* link recommendation.
C5_MaxLinksZero ==
  (pc \notin {"entry", "raised"} /\ args.max_links = 0) =>
     /\ tasks = <<>>
     /\ (Returned /\ ~IsEmpty(report.links)) =>
           /\ report.links.internal_count = 0
           /\ report.links.external_count = 0
           /\ report.links.broken_internal = <<>>
           /\ report.links.broken_external = <<>>
           /\ report.links.redirects = <<>>
           /\ \A j \in 1..Len(report.recommendations) :
                 report.recommendations[j] \notin LinkRecommendations

\* A full report for a page with a broken internal link, audited with
\* max_links = 0.
C5_Witness ==
  /\ Returned
  /\ IsFullReport(report)
  /\ args.max_links = 0
  /\ \E i \in 1..Len(anchors) : anchors[i].href.path = "/gone"

\* C6: no link is submitted to the pool more than once, and internal_count +
\* external_count is the number of distinct links submitted.
C6_NoDuplicateSubmission ==
  pc \in {"pool", "score", "returned"} =>
     /\ \A i, j \in 1..Len(tasks) : tasks[i].link = tasks[j].link => i = j
     /\ (Returned /\ ~IsEmpty(report.links)) =>
           report.links.internal_count + report.links.external_count
             = Cardinality({tasks[i].link : i \in 1..Len(tasks)})

\* A report for a page on which one href stands twice among the links kept
\* by the truncation.
C6_Witness ==
  /\ Returned
  /\ IsFullReport(report)
  /\ LET picked == _smart_link_sampling(anchors, args.max_links) IN
     Len(picked.internal) + Len(picked.external) > Len(tasks)
  /\ Len(tasks) > 0

\* C7: a link whose validation raised is in the broken bucket of its side
\* with status 0, and every link of the batch has been validated and its
\* result taken by the time the links section is built; the run does not
\* end in an exception once links have been submitted.
C7_LinkFailureIsolated ==
  /\ pc \in {"score", "returned"} =>
       \A i \in 1..Len(tasks) :
          /\ tasks[i].phase = "folded"
          /\ tasks[i].none =>
               IF InternalLink(tasks[i].link)
               THEN <<tasks[i].link, 0>> \in Range(broken_internal)
               ELSE <<tasks[i].link, 0>> \in Range(broken_external)
          /\ (~tasks[i].none /\ tasks[i].status >= 400) =>
               <<tasks[i].link, tasks[i].status>>
                  \in Range(broken_internal) \cup Range(broken_external)
  /\ pc = "raised" => tasks = <<>>

\* A report for a batch in which one probe raised and another link answered.
C7_Witness ==
  /\ Returned
  /\ IsFullReport(report)
  /\ \E i, j \in 1..Len(tasks) :
        /\ tasks[i].none
        /\ ~tasks[j].none
        /\ tasks[j].status \in {200, 404}

\* C8: the number of probes in flight never exceeds the caller's worker
\* count and never exceeds 20, through every entry point.
C8_InFlightWithinCap ==
  /\ Cardinality(InFlight) <= call.workers
  /\ Cardinality(InFlight) <= WorkerCap

\* C9: when the score is computed and the report returned, every submitted
\* validation has completed and its result has been taken: none is queued or
\* in flight, and every sampled link has its task.
C9_ScoreAfterAllValidations ==
  pc \in {"score", "returned"} =>
     /\ InFlight = {} /\ Queued = {} /\ Done = {}
     /\ Len(tasks) = Len(sampled.internal) + Len(sampled.external)

\* The score is about to be computed after two workers validated two links,
\* one of them with a HEAD and a GET.
C9_Witness ==
  /\ pc = "score"
  /\ Len(tasks) >= 2
  /\ args.workers >= 2
  /\ \E i \in 1..Len(tasks) : tasks[i].gets > 0

\* C10: a returned report is a failure report or a full report and not both.
C10_TwoShapes ==
  Returned => (IsFailureReport(report) /\ ~IsFullReport(report))
              \/ (IsFullReport(report) /\ ~IsFailureReport(report))

\* A full report with validated links has been returned.
C10_Witness ==
  /\ Returned
  /\ IsFullReport(report)
  /\ Len(tasks) > 0
  /\ Len(report.recommendations) > 1

\* C11: a link is internal exactly when the host of its href, resolved
\* against the audited page, is the page's host, and that one label is the
\* list it is ranked, truncated and counted in and the bucket it goes to
\* when it is broken.
C11_OneLabel ==
  pc \in {"pool", "score", "returned"} =>
     \A i \in 1..Len(tasks) :
        LET link == tasks[i].link IN
        /\ link \in Range(sampled.internal) <=> InternalLink(link)
        /\ link \in Range(sampled.external) <=> ~InternalLink(link)
        /\ \A j \in 1..Len(broken_internal) :
              broken_internal[j][1] = link => InternalLink(link)
        /\ \A j \in 1..Len(broken_external) :
              broken_external[j][1] = link => ~InternalLink(link)

\* C12: every link handed to a validation worker is an absolute URL, and a
\* relative href whose target on the audited site answers 200 is never in
\* broken_internal.
C12_AbsoluteCandidates ==
  /\ \A i \in 1..Len(tasks) : tasks[i].link.scheme # ""
  /\ \A j \in 1..Len(broken_internal) :
        LET link == broken_internal[j][1] IN
        link.scheme = "" =>
           Web("GET", _absolute_url(args.url, link)) # Answer(FALSE, 200)

\* C13: the report for an HTTPS page with no title, no meta description, two
\* H1 headings, one image without alt text, no HSTS header and an unreachable
\* sitemap.xml, every other check passing, has the six recommendations of
\* these findings and score.overall = 81.
C13_ScenarioScore ==
  (/\ Returned
   /\ site = SiteScenario
   /\ report.url.scheme = "https"
   /\ broken_internal = <<>>
   /\ Len(broken_external) <= 3) =>
     /\ {"Missing <title> tag.",
         "Add a unique meta description (120-160 characters).",
         "Use only one primary H1 heading per page.",
         "1 images missing alt text.",
         "Enable HSTS for better transport security.",
         "Missing sitemap.xml file."} \subseteq Range(report.recommendations)
     /\ HasScore(report)
     /\ report.score.overall = 81

\* The report of that page, with links validated and none of them broken.
C13_Witness ==
  /\ Returned
  /\ site = SiteScenario
  /\ IsFullReport(report)
  /\ Len(tasks) > 0
  /\ broken_internal = <<>> /\ broken_external = <<>>
  /\ report.score.overall = 81

\* C14: the report for a page with three internal links, answering 404, 301
\* and 200, has exactly one entry in broken_internal and exactly one in
\* redirects, and both link recommendations, whether the hrefs are relative
\* or absolute.
C14_ThreeLinks ==
  (Returned /\ anchors \in ThreeLinkPages /\ ~IsEmpty(report.links)) =>
     /\ Len(report.links.broken_internal) = 1
     /\ Len(report.links.redirects) = 1
     /\ "1 internal links appear broken." \in Range(report.recommendations)
     /\ "1 links redirect; update to final URLs where possible."
           \in Range(report.recommendations)

Count(xs, x) == Cardinality({i \in 1..Len(xs) : xs[i] = x})

\* C15: a title that is present gets "too short" exactly when its stripped
\* length is below 30 and "too long" exactly when it is above 60, never
\* both; a missing or whitespace-only title gets "Missing title" and nothing
\* else.
C15_TitleThresholds ==
  ~IsEmpty(report.on_page) =>
     LET issues == report.on_page.title_info.issues
         n == site.doc.titleLen
     IN IF site.doc.hasTitle /\ n > 0
        THEN /\ "Title too short (<30 chars)" \in Range(issues) <=> n < 30
             /\ "Title too long (>60 chars)" \in Range(issues) <=> n > 60
             /\ Len(issues) <= 1
             /\ "Missing title" \notin Range(issues)
        ELSE issues = <<"Missing title">>

\* A title of 61 characters has been found too long.
C15_Witness ==
  /\ Returned
  /\ site.doc.hasTitle /\ site.doc.titleLen = 61
  /\ report.on_page.title_info.issues = <<"Title too long (>60 chars)">>

\* C16: for a page with k JSON-LD blocks of which m fail to parse,
\* json_ld_errors is m, json_ld_blocks is k - m, and the recommendations
\* hold exactly m times the advice to fix the JSON-LD; the audit goes on to
\* its end.
C16_JsonLdCounts ==
  LET k == Len(site.doc.jsonld)
      m == Count(site.doc.jsonld, FALSE)
  IN /\ ~IsEmpty(report.social_structured) =>
          /\ report.social_structured.json_ld_errors = m
          /\ report.social_structured.json_ld_blocks = k - m
          /\ Count(report.recommendations, "Fix invalid JSON-LD structured data.") = m
     /\ pc # "raised"

\* A page with three blocks, two of them malformed, has its report.
C16_Witness ==
  /\ Returned
  /\ IsFullReport(report)
  /\ site.doc.jsonld = <<FALSE, TRUE, FALSE>>
  /\ report.social_structured.json_ld_errors = 2

\* C17: once the page has been fetched, no error of a check leaves
\* seo_audit: not of the document checks, not of the technical headers (a
\* Content-Length that is not a number included), not of the robots and
\* sitemap probes, not of the link validation and the set-up of its pool.
C17_NoCheckRaises == pc # "raised"

\* The recommendations each check can append, in the order seo_audit runs
\* the checks.
CheckRecs ==
  << {"Increase title length to ~50-60 characters.", "Shorten title to <=60 characters.",
      "Missing <title> tag."},
     {"Expand meta description to 120-160 characters.",
      "Shorten meta description to <=160 characters.",
      "Add a unique meta description (120-160 characters)."},
     {"Add one descriptive H1 heading.", "Use only one primary H1 heading per page."},
     {ToString(n) \o " images missing alt text." : n \in 1..DefaultMaxLinks},
     {"Ensure canonical URL points to the same domain.",
      "Add a canonical <link> to avoid duplicate content."},
     {"Add responsive viewport meta tag."},
     {"Page is set to noindex.", "Page is set to nofollow."},
     {"Set <html lang> attribute for accessibility and SEO.", "Declare a charset (e.g., UTF-8)."},
     {"Add x-default hreflang for international pages."},
     {"Add Open Graph tags for better social sharing.", "Add Twitter Card meta tags.",
      "Fix invalid JSON-LD structured data."},
     {"Page load (first byte) seems slow (>1.5s). Optimize performance.",
      "Large page size (>2MB). Consider optimizing assets.",
      "Enable HSTS for better transport security.",
      "Add X-Content-Type-Options: nosniff header.",
      "Add X-Frame-Options header to prevent clickjacking.",
      "Set a Referrer-Policy header.",
      "Consider adding a Content-Security-Policy header."},
     {"Missing robots.txt file.", "Missing sitemap.xml file."},
     LinkRecommendations >>

\* The place in that order of the check a recommendation comes from, 0 for
\* the message of a failure report.
Stage(rec) ==
  IF \E k \in 1..Len(CheckRecs) : rec \in CheckRecs[k]
  THEN CHOOSE k \in 1..Len(CheckRecs) : rec \in CheckRecs[k]
  ELSE 0

\* No recommendation stands before one of an earlier check.
InCheckOrder(recs) ==
  \A i \in 1..(Len(recs) - 1) : Stage(recs[i]) <= Stage(recs[i + 1])

IsPrefix(xs, ys) == Len(xs) <= Len(ys) /\ SubSeq(ys, 1, Len(xs)) = xs

\* C18: a step of the audit only appends to the recommendation list, and the
\* list is in the order the checks run: title, meta description, H1, images,
\* canonical, viewport, robots meta, lang and charset, hreflang, social and
\* structured data, technical headers, robots and sitemap, links.
C18_AppendOnlyInCheckOrder ==
  /\ [](InCheckOrder(report.recommendations))
  /\ [][IsPrefix(report.recommendations, report.recommendations')]_vars

\* A report with recommendations of the first check, of the technical
\* headers, of the probes and of the link validation.
C18_Witness ==
  /\ Returned
  /\ IsFullReport(report)
  /\ {1, 11, 12, 13} \subseteq {Stage(report.recommendations[i]) :
                                 i \in 1..Len(report.recommendations)}

\* C19: once seo_audit has returned the report, no step of a caller that
\* presents it (the web routes index and full, main, _render_html,
\* _build_summary) changes a key of the report or adds one.
C19_ReportFrozen == [][pc = "returned" => report' = report]_vars

\* What the fold takes as the status of a validated link.
FinalStatus(t) == IF t.none THEN 0 ELSE t.status

\* C20: for each sampled link head_or_get sends one HEAD, first; it sends a
\* GET after it exactly when the HEAD returned a status >= 400, and then
\* one GET only; the link's status is the GET's when the retry happened, the
\* HEAD's otherwise, and 0 when either request raised or timed out.
C20_HeadThenGet ==
  \A i \in 1..Len(tasks) :
     LET t == tasks[i]
         head == Web("HEAD", t.link)
         get == Web("GET", t.link)
     IN /\ t.heads <= 1 /\ t.gets <= 1
        /\ t.gets > 0 => t.heads = 1
        /\ t.phase = "queued" <=> t.heads = 0
        /\ t.phase = "get" => ~head.exc /\ head.status >= 400
        /\ t.phase \in {"done", "folded"} =>
              /\ t.gets = 1 <=> (~head.exc /\ head.status >= 400)
              /\ FinalStatus(t) =
                    IF head.exc THEN 0
                    ELSE IF head.status < 400 THEN head.status
                    ELSE IF get.exc THEN 0
                    ELSE get.status

\* A batch has been validated in which the GET of one link raised after its
\* HEAD had returned 503, and another link answered its HEAD with 200.
C20_Witness ==
  /\ pc = "score"
  /\ \E i, j \in 1..Len(tasks) :
        /\ tasks[i].gets = 1 /\ tasks[i].none
        /\ tasks[j].gets = 0 /\ ~tasks[j].none /\ tasks[j].status = 200

\* How often a link stands in a bucket.
Entries(bucket, link) == Cardinality({j \in 1..Len(bucket) : bucket[j][1] = link})

\* C21: a validated link stands in at most one bucket and at most once: with
\* status 0 or >= 400 in broken_internal when its host is the page's and in
\* broken_external when it is not, with a status in 300..399 in redirects,
\* with any other status in none.
C21_OneBucket ==
  \A i \in 1..Len(tasks) :
     LET t == tasks[i]
         s == FinalStatus(t)
         bi == Entries(broken_internal, t.link)
         be == Entries(broken_external, t.link)
         re == Entries(redirects, t.link)
     IN IF t.phase # "folded" THEN bi + be + re = 0
        ELSE /\ bi + be + re <= 1
             /\ IF s = 0 \/ s >= 400
                THEN /\ InternalLink(t.link) => <<t.link, s>> \in Range(broken_internal)
                     /\ ~InternalLink(t.link) => <<t.link, s>> \in Range(broken_external)
                ELSE IF 300 <= s /\ s < 400
                THEN <<t.link, s>> \in Range(redirects)
                ELSE bi + be + re = 0

\* A batch with a broken link and a redirecting one has been validated.
C21_Witness ==
  /\ pc = "score"
  /\ broken_internal # <<>>
  /\ redirects # <<>>

\* The keys of the links section other than the two sample counts and the
\* three truncated buckets.
CountKeys ==
  DOMAIN report.links
    \ {"internal_count", "external_count", "broken_internal", "broken_external", "redirects"}

HasCount(n) == \E k \in CountKeys : report.links[k] = n

\* C22: each bucket of the links section is the first 10 entries recorded,
\* and when a bucket had more than 10 the report still carries its full
\* count: in a key of the links section, or in the bucket's recommendation.
C22_TruncatedWithCounts ==
  (Returned /\ ~IsEmpty(report.links)) =>
     /\ report.links.broken_internal = Take(broken_internal, BucketLimit)
     /\ report.links.broken_external = Take(broken_external, BucketLimit)
     /\ report.links.redirects = Take(redirects, BucketLimit)
     /\ Len(broken_internal) > BucketLimit =>
           \/ HasCount(Len(broken_internal))
           \/ (ToString(Len(broken_internal)) \o " internal links appear broken.")
                 \in Range(report.recommendations)
     /\ Len(redirects) > BucketLimit =>
           \/ HasCount(Len(redirects))
           \/ (ToString(Len(redirects))
                  \o " links redirect; update to final URLs where possible.")
                 \in Range(report.recommendations)
     /\ Len(broken_external) > BucketLimit => HasCount(Len(broken_external))

\* The recommendations appended after the robots and sitemap probes.
AfterProbes(recs) == {j \in 1..Len(recs) : Stage(recs[j]) \notin 1..12}

NonEmpty(bucket) == IF bucket # <<>> THEN 1 ELSE 0

\* C23: link validation appends one recommendation for each of the buckets
\* broken_internal, broken_external and redirects that is not empty and
\* none for an empty one, and the number in it is the length of the bucket
\* before its truncation.
C23_OneRecommendationPerBucket ==
  (Returned /\ ~IsEmpty(report.links)) =>
     /\ Cardinality(AfterProbes(report.recommendations))
          = NonEmpty(broken_internal) + NonEmpty(broken_external) + NonEmpty(redirects)
     /\ broken_internal # <<>> =>
           Count(report.recommendations,
                 ToString(Len(broken_internal)) \o " internal links appear broken.") = 1
     /\ redirects # <<>> =>
           Count(report.recommendations,
                 ToString(Len(redirects))
                   \o " links redirect; update to final URLs where possible.") = 1

\* The scored conditions of a full report and their points, as a set of
\* pairs <<name, points>> of the conditions that hold.
Holding(r) ==
  LET row(name, cond, points) == IF cond THEN {<<name, points>>} ELSE {} IN
        row("title", r.on_page.title_info.issues # <<>>, 5)
  \cup row("description", r.on_page.meta_description_info.issues # <<>>, 5)
  \cup row("h1", r.on_page.h1_info.issues # <<>>, 5)
  \cup row("images", r.on_page.images_missing_alt > 5, 3)
  \cup row("canonical", r.on_page.canonical_info.issues # <<>>, 2)
  \cup row("viewport", ~r.on_page.has_viewport_meta, 2)
  \cup row("noindex", r.on_page.meta_robots.noindex, 10)
  \cup row("open graph", ~r.social_structured.open_graph, 2)
  \cup row("twitter", ~r.social_structured.twitter_card, 1)
  \cup row("json-ld", r.social_structured.json_ld_errors > 0, 2)
  \cup row("broken internal", r.links.broken_internal # <<>>, 5)
  \cup row("broken external", Len(r.links.broken_external) > 3, 2)
  \cup row("slow", r.technical.response_time_ms > 1500, 5)
  \cup row("large", r.technical.content_length > 2 * 1024 * 1024, 4)
  \cup row("hsts", r.url.scheme = "https" /\ ~r.technical.hsts, 2)
  \cup row("x-content-type-options", ~r.technical.x_content_type_options, 1)
  \cup row("x-frame-options", ~r.technical.x_frame_options, 1)
  \cup row("referrer-policy", ~r.technical.referrer_policy, 1)
  \cup row("csp", ~r.technical.csp, 1)
  \cup row("robots.txt", r.robots_sitemap.robots_txt # "Present", 2)
  \cup row("sitemap.xml", r.robots_sitemap.sitemap # "Present", 2)

RECURSIVE SumOfPoints(_)
SumOfPoints(rows) ==
  IF rows = {} THEN 0
  ELSE LET x == CHOOSE x \in rows : TRUE IN x[2] + SumOfPoints(rows \ {x})

Reverse(xs) == [i \in 1..Len(xs) |-> xs[Len(xs) + 1 - i]]

\* C24: the score of a full report is max(100 - S, 0), S being the sum of
\* the points of the conditions that hold; applying the deductions in
\* another order gives the same value, and deductions has one entry for
\* each condition that holds.
C24_ScoreIsFold ==
  (Returned /\ ~IsEmpty(report.links)) =>
     LET S == SumOfPoints(Holding(report))
         start == [score |-> StartScore, deductions |-> <<>>]
     IN /\ HasScore(report)
        /\ report.score.overall = Max(StartScore - S, 0)
        /\ Len(report.score.deductions) = Cardinality(Holding(report))
        /\ ApplyTable(Reverse(ScoreTable(report)), start).score = StartScore - S

\* A full report in which some of the conditions hold, among them the one
\* on broken external links.
C24_Witness ==
  /\ Returned
  /\ IsFullReport(report)
  /\ Len(report.links.broken_external) > 3
  /\ report.score.overall \in 80..90

\* C29: the deductions of a full report sum to at most 63, so its score is
\* the sum taken from 100 without the floor at 0 and is at least 37; a
\* score of 0 is the score of a failure report.
C29_DeductionsBounded ==
  Returned =>
     /\ ~IsEmpty(report.links) =>
           /\ SumOfPoints(Holding(report)) <= 63
           /\ report.score.overall = StartScore - SumOfPoints(Holding(report))
           /\ report.score.overall >= 37
     /\ report.score.overall = 0 => IsFailureReport(report)

\* The full report of a page on which every scored condition holds.
C29_Witness ==
  /\ Returned
  /\ IsFullReport(report)
  /\ Len(report.score.deductions) = 21
  /\ report.score.overall = 37

\* The names of the four security headers and their keys in the technical
\* section, recommendations and deductions.
SecurityHeaders ==
  { <<"x-content-type-options", "x_content_type_options",
      "Add X-Content-Type-Options: nosniff header.", "-1: Missing X-Content-Type-Options">>,
    <<"x-frame-options", "x_frame_options",
      "Add X-Frame-Options header to prevent clickjacking.", "-1: Missing X-Frame-Options">>,
    <<"referrer-policy", "referrer_policy",
      "Set a Referrer-Policy header.", "-1: Missing Referrer-Policy">>,
    <<"content-security-policy", "csp",
      "Consider adding a Content-Security-Policy header.", "-1: Missing CSP">> }

\* C30: for each of the four security headers the technical section marks
\* it present exactly when the response carries it, whatever its value, and
\* its recommendation and its deduction of one point are there exactly when
\* the response does not carry it.
C30_SecurityHeaders ==
  (Returned /\ ~IsEmpty(report.links)) =>
     \A h \in SecurityHeaders :
        /\ report.technical[h[2]] <=> Has(site.headers, h[1])
        /\ h[3] \in Range(report.recommendations) <=> ~Has(site.headers, h[1])
        /\ h[4] \in Range(report.score.deductions) <=> ~Has(site.headers, h[1])

\* C25: when the fetch of the main page fails or is answered with a status
\* >= 400, the audit does nothing more: the probes of robots.txt and
\* sitemap.xml are not made, no link is submitted or requested, and the
\* report returned has one deduction, a critical one.
C25_ShortCircuit ==
  (site.answer.exc \/ site.answer.status >= 400) =>
     /\ pc \in {"entry", "fetch", "returned", "presented"}
     /\ tasks = <<>>
     /\ IsEmpty(report.on_page) /\ IsEmpty(report.robots_sitemap) /\ IsEmpty(report.links)
     /\ Returned =>
           /\ HasScore(report)
           /\ Len(report.score.deductions) = 1
           /\ report.score.deductions[1]
                 \in {"Critical: site unreachable", "Critical: HTTP error"}

\* The report for a main page answered with 503 has been returned.
C25_Witness ==
  /\ Returned
  /\ ~site.answer.exc /\ site.answer.status = 503
  /\ report.score.overall = 0

\* A step of a worker thread: a task is taken from the queue, or its HEAD
\* or its GET comes back.
WorkerStep ==
  /\ pc = "pool" /\ pc' = "pool"
  /\ \E i \in 1..Len(tasks) :
        tasks'[i].phase # tasks[i].phase /\ tasks'[i].phase \in {"head", "get", "done"}

\* A step of the caller's loop: the result of one finished task is taken.
CallerStep ==
  /\ pc = "pool" /\ pc' = "pool"
  /\ \E i \in 1..Len(tasks) :
        /\ tasks[i].phase = "done"
        /\ tasks' = [tasks EXCEPT ![i].phase = "folded"]

Shared == <<report.recommendations, broken_internal, broken_external, redirects>>

\* C26: a step of a validation worker leaves the recommendation list and
\* the three buckets as they are; they change only in steps of the caller,
\* which takes one result at a time.
C26_OnlyCallerAppends ==
  [][/\ WorkerStep => Shared' = Shared
     /\ (pc = "pool" /\ Shared' # Shared) => (CallerStep \/ pc' = "score")]_vars

\* The caller has recorded a broken link while a worker is busy with
\* another.
C26_Witness ==
  /\ pc = "pool"
  /\ broken_internal \o broken_external # <<>>
  /\ \E i \in 1..Len(tasks) : tasks[i].phase \in {"head", "get"}

\* C27: with requests that return or time out and workers that are
\* scheduled, every run with a worker count in 1..20 returns a report.  The
\* call does not change during a run, so a run is one with another worker
\* count or reaches the return.
C27_EveryRunReturns ==
  <>(Returned \/ PassedWorkers(call) \notin 1..WorkerCap)

\* What head_or_get gives for a link whatever the other tasks do: the HEAD,
\* and the GET when the HEAD asks for it; none when a request raised.
Outcome(link) ==
  LET head == Web("HEAD", link)
      get == Web("GET", link)
  IN IF head.exc THEN [link |-> link, none |-> TRUE, status |-> 0]
     ELSE IF ~NeedsGet(head.status)
     THEN [link |-> link, none |-> FALSE, status |-> head.status]
     ELSE IF get.exc THEN [link |-> link, none |-> TRUE, status |-> 0]
     ELSE [link |-> link, none |-> FALSE, status |-> get.status]

\* The bucket the caller's loop puts an outcome in.
BucketOf(o) ==
  IF o.none \/ o.status >= 400
  THEN IF InternalLink(o.link) THEN "broken_internal" ELSE "broken_external"
  ELSE IF 300 <= o.status /\ o.status < 400 THEN "redirects" ELSE "none"

\* A bucket as it is when the tasks complete in the order of submission.
InSubmissionOrder(name) ==
  LET outcomes == [i \in 1..Len(tasks) |-> Outcome(tasks[i].link)]
      mine == SelectSeq(outcomes, LAMBDA o : BucketOf(o) = name)
  IN [j \in 1..Len(mine) |-> <<mine[j].link, mine[j].status>>]

SameEntries(xs, ys) ==
  /\ Len(xs) = Len(ys)
  /\ \A j \in 1..Len(xs) : Count(xs, xs[j]) = Count(ys, xs[j])

\* The recommendations of the checks and the probes of robots.txt and the
\* sitemap, which are made before the pool starts.
RecommendationsBeforeLinks ==
  _check_title(site.doc).recs \o _check_meta_description(site.doc).recs
    \o _check_h1(site.doc).recs \o _check_images(site.doc).recs
    \o _check_canonical(args.url, site.doc).recs \o _check_viewport(site.doc).recs
    \o _check_meta_robots(site.doc).recs \o _check_lang_and_charset(site.doc).recs
    \o _check_hreflang(site.doc).recs \o _check_social_and_structured(site.doc).recs
    \o TechnicalHeaders.recs
    \o _check_robots_and_sitemap(site.robots, site.sitemap).recs

\* The link recommendations of a completion in the order of submission.
RecommendationsOfLinks ==
  (IF InSubmissionOrder("broken_internal") # <<>>
   THEN <<ToString(Len(InSubmissionOrder("broken_internal")))
            \o " internal links appear broken.">>
   ELSE <<>>)
  \o (IF InSubmissionOrder("redirects") # <<>>
      THEN <<ToString(Len(InSubmissionOrder("redirects")))
               \o " links redirect; update to final URLs where possible.">>
      ELSE <<>>)

\* C28: whatever the order in which the validations complete, the buckets
\* hold the entries of a completion in the order of submission (in some
\* order), the recommendation list is the one of that completion, and the
\* score and its deductions are those of the report with the buckets in the
\* order of submission.
C28_OrderIndependent ==
  (pc \in {"score", "returned"} /\ ~IsEmpty(report.links)) =>
     /\ SameEntries(broken_internal, InSubmissionOrder("broken_internal"))
     /\ SameEntries(broken_external, InSubmissionOrder("broken_external"))
     /\ SameEntries(redirects, InSubmissionOrder("redirects"))
     /\ report.recommendations = RecommendationsBeforeLinks \o RecommendationsOfLinks
     /\ Returned =>
          report.score =
            _score([report EXCEPT
                      !.links.broken_internal =
                         Take(InSubmissionOrder("broken_internal"), BucketLimit),
                      !.links.broken_external =
                         Take(InSubmissionOrder("broken_external"), BucketLimit),
                      !.links.redirects =
                         Take(InSubmissionOrder("redirects"), BucketLimit)])

\* A report has been returned whose bucket of broken internal links is in
\* the reverse of the order of submission.
C28_Witness ==
  /\ Returned
  /\ Len(tasks) = 2
  /\ report.links.broken_internal
       = <<<<tasks[2].link, FinalStatus(tasks[2])>>, <<tasks[1].link, FinalStatus(tasks[1])>>>>
  /\ report.score.overall < StartScore

====
